---- MODULE Spec2Model ----
(***************************************************************************)
(* A model of the `mat` crate: statically sized matrices (Mat, MatGen,     *)
(* MatGenImm), the literal macros that build them, the lazy expression     *)
(* nodes (Transpose, Product, Sum, Difference), the bounds-checked `get`   *)
(* and the eager operators of MatGenImm.                                   *)
(*                                                                         *)
(* A behaviour is one client program: it declares the leaves `a` and `b`   *)
(* (a literal macro or Default::default()), optionally runs one eager      *)
(* operator into `c`, then builds an expression tree with the lazy         *)
(* operators and queries it with `get`, or evaluates it into a leaf.       *)
(* A failed assertion or a failed build ends the program.                  *)
(*                                                                         *)
(* Elements are i8 (one of the types traits.rs implements Zero for) with   *)
(* the wrapping arithmetic of a build without overflow checks.             *)
(***************************************************************************)
EXTENDS Integers, Sequences, FiniteSets, TLC

VARIABLES env, decl, tree, res, pc, src, dst, i, j, store, visited, fin

vars == <<env, decl, tree, res, pc, src, dst, i, j, store, visited, fin>>

(***************************************************************************)
(* Bounds of the model.                                                    *)
(***************************************************************************)
\* the largest row or column count of a declared matrix
MaxDim == 2
\* the largest height of an expression tree (a leaf has height 0)
MaxDepth == 2

\* the values the literal grids are generated from
Seeds == {-3, 100}

Dims == 0..MaxDim

(***************************************************************************)
(* The element type.                                                       *)
(***************************************************************************)
ElemBits == 8

Wrap(x) == ((x + 2^(ElemBits - 1)) % 2^ElemBits) - 2^(ElemBits - 1)

\* What a read through get_unchecked past the end of the buffer yields: no
\* defined element.  It is outside the element range and every operation on it
\* yields it again.
Undef == 2^ElemBits

zero == 0

ElemDefault == 0

ElemAdd(x, y) == IF x = Undef \/ y = Undef THEN Undef ELSE Wrap(x + y)

ElemMul(x, y) == IF x = Undef \/ y = Undef THEN Undef ELSE Wrap(x * y)

ElemSub(x, y) == IF x = Undef \/ y = Undef THEN Undef ELSE Wrap(x - y)

ElemNeg(x) == IF x = Undef THEN Undef ELSE Wrap(0 - x)

(***************************************************************************)
(* Storage matrices.  The shape is the pair of type parameters NROWS and   *)
(* NCOLS; the buffer is a flat sequence (0-based offset o is data[o + 1]). *)
(***************************************************************************)
Names == {"a", "b", "c"}

LeafNames == {"a", "b"}

None == [kind |-> "none"]

Storage(kind, nr, nc, data) == [kind |-> kind, nrows |-> nr, ncols |-> nc, data |-> data]

Declared(n) == env[n].kind # "none"

\* Mat::new, MatGen::new, MatGenImm::new: the buffer is stored as given
new(kind, nr, nc, buffer) == Storage(kind, nr, nc, buffer)

\* GenericArray's Default: Prod<NROWS, NCOLS> elements, each T::default()
default_mutant(kind, nr, nc) == Storage(kind, nr, nc, [o \in 1..(nr * nc) |-> 1])

default_len_mutant(kind, nr, nc) == Storage(kind, nr, nc, [o \in 1..(nr * nr) |-> ElemDefault])

default(kind, nr, nc) == Storage(kind, nr, nc, [o \in 1..(nr * nc) |-> ElemDefault])

(***************************************************************************)
(* The literal macros.  A grid is a non-empty sequence of rows, each a     *)
(* sequence of element expressions.                                        *)
(***************************************************************************)
RECURSIVE flat_map(_)
\* mat.rows.iter().flat_map(|row| row.elems.iter()).collect()
flat_map(rows) == IF rows = <<>> THEN <<>> ELSE Head(rows) \o flat_map(Tail(rows))

\* the macro's check: it emits an error, at the element's span, for every
\* element whose index in its row is >= the length of the first row; the set
\* of <<row, index>> (0-based) of the elements it reports
error_spans(rows) ==
    LET ncols_ == Len(rows[1])
    IN  UNION {{<<x - 1, e>> : e \in {e \in 0..(Len(rows[x]) - 1) : e >= ncols_}} :
               x \in 1..Len(rows)}

emits_error(rows) == error_spans(rows) # {}

\* mat!: Mat::<_, [_; size], Unrows, Uncols>::new([elems]); an array
\* expression whose length is not `size` does not type-check (the compiler's
\* mismatched-types error on the whole array, no element reported by the macro)
mat(rows) ==
    LET nrows_ == Len(rows)
        ncols_ == Len(rows[1])
        size_  == nrows_ * ncols_
        elems  == flat_map(rows)
    IN  IF emits_error(rows) \/ Len(elems) # size_
        THEN [outcome |-> "compile_error", spans |-> error_spans(rows)]
        ELSE [outcome |-> "ok", value |-> new("Mat", nrows_, ncols_, elems)]

\* mat_gen!: GenericArray::<_, Usize>::clone_from_slice(&arr[..]) panics when
\* the slice's length is not `size`
mat_gen(rows) ==
    LET nrows_ == Len(rows)
        ncols_ == Len(rows[1])
        size_  == nrows_ * ncols_
        elems  == flat_map(rows)
    IN  IF emits_error(rows)
        THEN [outcome |-> "compile_error", spans |-> error_spans(rows)]
        ELSE IF Len(elems) # size_
             THEN [outcome |-> "panic", spans |-> {}]
             ELSE [outcome |-> "ok", value |-> new("MatGen", nrows_, ncols_, elems)]

\* mat_gen_imm!: the macro of MatGenImm, as the literal-construction
\* collaborator is specified: a rectangular grid gives the populated matrix,
\* rows of inconsistent length fail the build
mat_gen_imm(rows) ==
    LET nrows_ == Len(rows)
        ncols_ == Len(rows[1])
    IN  IF \E x \in 1..Len(rows) : Len(rows[x]) # ncols_
        THEN [outcome |-> "compile_error", spans |-> error_spans(rows)]
        ELSE [outcome |-> "ok",
              value |-> new("MatGenImm", nrows_, ncols_, flat_map(rows))]

\* the element expression written at row r, column c (0-based) of a generated grid
Lit(seed, r, c) == Wrap(seed + 10 * r + c)

\* the grid with rows of the given lengths
Grid(seed, lens) == [x \in 1..Len(lens) |-> [y \in 1..lens[x] |-> Lit(seed, x - 1, y - 1)]]

RowLens == UNION {[1..n -> Dims] : n \in 1..MaxDim}

Grids == {Grid(s, l) : s \in Seeds, l \in RowLens}

Rectangular(rows) == \A x \in 1..Len(rows) : Len(rows[x]) = Len(rows[1])

(***************************************************************************)
(* Expression trees.                                                       *)
(***************************************************************************)
NoTree == [op |-> "none"]

Leaf(n) == [op |-> "leaf", name |-> n]

\* traits::Transpose::t
t(m) == [op |-> "t", m |-> m]

\* Product { l, r }, Sum { l, r } and the difference node
Product(l, r) == [op |-> "mul", l |-> l, r |-> r]

Sum(l, r) == [op |-> "add", l |-> l, r |-> r]

Difference(l, r) == [op |-> "sub", l |-> l, r |-> r]

RECURSIVE Depth(_)
Depth(m) ==
    CASE m.op = "leaf" -> 0
      [] m.op = "t" -> 1 + Depth(m.m)
      [] OTHER -> 1 + (IF Depth(m.l) >= Depth(m.r) THEN Depth(m.l) ELSE Depth(m.r))

RECURSIVE Leaves(_)
Leaves(m) ==
    CASE m.op = "leaf" -> {m.name}
      [] m.op = "t" -> Leaves(m.m)
      [] OTHER -> Leaves(m.l) \cup Leaves(m.r)

RECURSIVE nrows(_)
RECURSIVE ncols(_)
\* the associated types NROWS and NCOLS of each node, read through size()
nrows(m) ==
    CASE m.op = "leaf" -> env[m.name].nrows
      [] m.op = "t" -> ncols(m.m)
      [] m.op = "mul" -> nrows(m.l)
      [] m.op = "add" -> nrows(m.l)
      [] m.op = "sub" -> nrows(m.l)

ncols(m) ==
    CASE m.op = "leaf" -> env[m.name].ncols
      [] m.op = "t" -> nrows(m.m)
      [] m.op = "mul" -> ncols(m.r)
      [] m.op = "add" -> ncols(m.l)
      [] m.op = "sub" -> ncols(m.l)

size(m) == <<nrows(m), ncols(m)>>

RECURSIVE Matrix(_)
\* the types that implement the lazy matrix trait
Matrix(m) ==
    CASE m.op = "leaf" -> env[m.name].kind \in {"Mat", "MatGen"}
      [] m.op = "t" -> Matrix(m.m)
      [] m.op = "mul" -> Matrix(m.l) /\ Matrix(m.r)
      [] m.op = "add" -> Matrix(m.l) /\ Matrix(m.r)
      [] m.op = "sub" -> TRUE

\* &MatGenImm
ImmMatrix(m) == m.op = "leaf" /\ env[m.name].kind = "MatGenImm"

(***************************************************************************)
(* Element access.                                                         *)
(***************************************************************************)
RECURSIVE unsafe_get(_, _, _)

storage_unsafe_get_mutant(s, r, c) ==
    LET o == r * s.nrows + c
    IN  IF o < Len(s.data) THEN s.data[o + 1] ELSE Undef

\* *slice.get_unchecked(r * NCOLS::to_usize() + c)
storage_unsafe_get(s, r, c) ==
    LET o == r * s.ncols + c
    IN  IF o < Len(s.data) THEN s.data[o + 1] ELSE Undef

transpose_unsafe_get_mutant(m, r, c) == unsafe_get(m.m, r, c)

transpose_unsafe_get_diag(m, r, c) == unsafe_get(m.m, c, c)

\* self.m.unsafe_get(c, r)
transpose_unsafe_get(m, r, c) == unsafe_get(m.m, c, r)

RECURSIVE product_loop_mutant(_, _, _, _, _)
product_loop_mutant(m, r, c, k, sum) ==
    IF k >= ncols(m.r)
    THEN sum
    ELSE product_loop_mutant(m, r, c, k + 1,
                      ElemAdd(sum, ElemMul(unsafe_get(m.l, r, k), unsafe_get(m.r, k, c))))

RECURSIVE product_loop(_, _, _, _, _)
\* for i in 0..self.l.ncols() { sum = sum + l.unsafe_get(r, i) * r.unsafe_get(i, c) }
product_loop(m, r, c, k, sum) ==
    IF k >= ncols(m.l)
    THEN sum
    ELSE product_loop(m, r, c, k + 1,
                      ElemAdd(sum, ElemMul(unsafe_get(m.l, r, k), unsafe_get(m.r, k, c))))

product_unsafe_get_mutant(m, r, c) == product_loop(m, r, c, 1, zero)

product_unsafe_get(m, r, c) == product_loop(m, r, c, 0, zero)

sum_unsafe_get_mutant(m, r, c) == ElemAdd(unsafe_get(m.l, r, c), unsafe_get(m.l, r, c))

\* self.l.unsafe_get(r, c) + self.r.unsafe_get(r, c)
sum_unsafe_get(m, r, c) == ElemAdd(unsafe_get(m.l, r, c), unsafe_get(m.r, r, c))

difference_unsafe_get_mutant(m, r, c) == ElemSub(unsafe_get(m.r, r, c), unsafe_get(m.l, r, c))

\* left.unsafe_get(r, c) - right.unsafe_get(r, c)
difference_unsafe_get(m, r, c) == ElemSub(unsafe_get(m.l, r, c), unsafe_get(m.r, r, c))

unsafe_get(m, r, c) ==
    CASE m.op = "leaf" -> storage_unsafe_get(env[m.name], r, c)
      [] m.op = "t" -> transpose_unsafe_get(m, r, c)
      [] m.op = "mul" -> product_unsafe_get(m, r, c)
      [] m.op = "add" -> sum_unsafe_get(m, r, c)
      [] m.op = "sub" -> difference_unsafe_get(m, r, c)

RECURSIVE unsafe_get_calls(_, _, _)
\* the unsafe_get calls that m.unsafe_get(r, c) makes, itself included, as
\* <<node, row, column>>: a leaf makes none, a Transpose calls its operand at
\* (c, r), a Product calls l at (r, i) and r at (i, c) for i in 0..l.ncols(),
\* a Sum or Difference calls both operands at (r, c)
unsafe_get_calls(m, r, c) ==
    {<<m, r, c>>} \cup
    CASE m.op = "leaf" -> {}
      [] m.op = "t" -> unsafe_get_calls(m.m, c, r)
      [] m.op = "mul" ->
            UNION {unsafe_get_calls(m.l, r, k) \cup unsafe_get_calls(m.r, k, c) :
                   k \in 0..(ncols(m.l) - 1)}
      [] OTHER -> unsafe_get_calls(m.l, r, c) \cup unsafe_get_calls(m.r, r, c)

Panic == [ok |-> FALSE]

Ok(v) == [ok |-> TRUE, val |-> v]

get_mutant(m, r, c) ==
    IF r <= nrows(m) /\ c < ncols(m) THEN Ok(unsafe_get(m, r, c)) ELSE Panic

\* assert!(r < self.nrows() && c < self.ncols()); unsafe { self.unsafe_get(r, c) }
get(m, r, c) ==
    IF r < nrows(m) /\ c < ncols(m) THEN Ok(unsafe_get(m, r, c)) ELSE Panic

(***************************************************************************)
(* The program's steps.                                                    *)
(***************************************************************************)
NoCall == [call |-> "none"]

Idle == pc = "idle"

\* every leaf of one program has the same storage type
SameKind(kind) == \A n \in Names : Declared(n) => env[n].kind = kind

\* how a name came to its value (the literal it was written as, Default, the
\* result of an eager operator, or the target of an evaluation) and the shape
\* of the type it was declared with
Undeclared == [how |-> "none", rows |-> <<>>, shape |-> <<0, 0>>]

Declaration(how, rows, value) ==
    [how |-> how, rows |-> rows, shape |-> <<value.nrows, value.ncols>>]

Bind(n, made, how, rows) ==
    /\ Idle /\ tree = NoTree /\ ~Declared(n) /\ ~Declared("c")
    /\ IF made.outcome = "ok"
       THEN /\ SameKind(made.value.kind)
            /\ env' = [env EXCEPT ![n] = made.value]
            /\ decl' = [decl EXCEPT ![n] = Declaration(how, rows, made.value)]
            /\ pc' = pc
       ELSE /\ UNCHANGED <<env, decl>>
            /\ pc' = made.outcome
    /\ UNCHANGED <<tree, res, src, dst, i, j, store, visited, fin>>

\* let n = mat![...];
DeclareMat(n, rows) == Bind(n, mat(rows), "literal", rows)

\* let n = mat_gen![...];
DeclareMatGen(n, rows) == Bind(n, mat_gen(rows), "literal", rows)

\* let n = mat_gen_imm![...];
DeclareMatGenImm(n, rows) == Bind(n, mat_gen_imm(rows), "literal", rows)

\* let n: MatGen<_, Unr, Unc> = Default::default();
DefaultMatGen(n, nr, nc) ==
    Bind(n, [outcome |-> "ok", value |-> default("MatGen", nr, nc)], "default", <<>>)

\* let n: MatGenImm<_, Unr, Unc> = Default::default();
DefaultMatGenImm(n, nr, nc) ==
    Bind(n, [outcome |-> "ok", value |-> default("MatGenImm", nr, nc)], "default", <<>>)

\* &n: the expression starts at a leaf
Ref(n) ==
    /\ Idle /\ Declared(n)
    /\ fin # "none" => n = dst
    /\ tree' = Leaf(n)
    /\ res' = NoCall
    /\ UNCHANGED <<env, decl, pc, src, dst, i, j, store, visited, fin>>

Grow(m) ==
    /\ Idle /\ tree # NoTree /\ fin = "none"
    /\ Depth(m) <= MaxDepth
    /\ tree' = m
    /\ res' = NoCall
    /\ UNCHANGED <<env, decl, pc, src, dst, i, j, store, visited, fin>>

\* tree.t()
Transpose ==
    /\ tree # NoTree /\ Matrix(tree)
    /\ Grow(t(tree))

\* the operands of a binary operator: the tree built so far and a leaf
Operands == {Leaf(n) : n \in {x \in Names : Declared(x)}} \cup {tree}

CanMul_mutant(l, r) ==
    \/ /\ l.op = "leaf" /\ Matrix(l)
       /\ Matrix(r) /\ nrows(r) = ncols(l)
    \/ /\ l.op = "t" /\ Matrix(l.m)
       /\ Matrix(r) /\ nrows(r) = ncols(l.m)

\* the where clauses of ops::Mul<R>:
\*   for &Mat<.., NROWS, NCOLS> and &MatGen<.., NROWS, NCOLS>: R: Matrix<NROWS = NCOLS>
\*   for Transpose<L>: L: Matrix, R: Matrix<NROWS = L::NROWS>
CanMul(l, r) ==
    \/ /\ l.op = "leaf" /\ Matrix(l)
       /\ Matrix(r) /\ nrows(r) = ncols(l)
    \/ /\ l.op = "t" /\ Matrix(l.m)
       /\ Matrix(r) /\ nrows(r) = nrows(l.m)

Mul(l, r) ==
    /\ tree # NoTree /\ l = tree
    /\ CanMul(l, r)
    /\ Grow(Product(l, r))

\* ops::Add for Product<L, R>: RHS: Matrix<NROWS = L::NROWS, NCOLS = R::NCOLS>
CanAdd(l, r) ==
    /\ l.op = "mul" /\ Matrix(l.l) /\ Matrix(l.r)
    /\ Matrix(r)
    /\ nrows(r) = nrows(l.l) /\ ncols(r) = ncols(l.r)

Add(l, r) ==
    /\ tree # NoTree /\ l = tree
    /\ CanAdd(l, r)
    /\ Grow(Sum(l, r))

\* the subtraction operator: operands of identical shape
CanSub(l, r) ==
    /\ Matrix(l) \/ ImmMatrix(l)
    /\ Matrix(r) \/ ImmMatrix(r)
    /\ nrows(r) = nrows(l) /\ ncols(r) = ncols(l)

Sub(l, r) ==
    /\ tree # NoTree /\ l = tree
    /\ CanSub(l, r)
    /\ Grow(Difference(l, r))

Get_mutant(r, c) ==
    /\ Idle /\ tree # NoTree
    /\ res' = [call |-> "get", m |-> tree, r |-> r, c |-> c, ret |-> get(tree, r, c)]
    /\ pc' = IF get(tree, r, c).ok THEN pc ELSE "panic"
    /\ env' = [n \in Names |->
                 IF n \in Leaves(tree)
                 THEN default(env[n].kind, env[n].nrows, env[n].ncols)
                 ELSE env[n]]
    /\ UNCHANGED <<decl, tree, src, dst, i, j, store, visited, fin>>

\* tree.get(r, c); a failed assertion ends the program
Get(r, c) ==
    /\ Idle /\ tree # NoTree
    /\ res' = [call |-> "get", m |-> tree, r |-> r, c |-> c, ret |-> get(tree, r, c)]
    /\ pc' = IF get(tree, r, c).ok THEN pc ELSE "panic"
    /\ UNCHANGED <<env, decl, tree, src, dst, i, j, store, visited, fin>>

(***************************************************************************)
(* Materialization: the eager operators of &MatGenImm, and evaluate-into.  *)
(* `store` is the local the operator fills and returns; `src` is the       *)
(* expression being materialized, `dst` the name the result is bound to    *)
(* (or, for evaluate-into, the target), (i, j) the cell the loops are at,  *)
(* `visited` the cells written so far and `fin` the operation that last    *)
(* ran to completion.                                                      *)
(***************************************************************************)
RECURSIVE mul_cell(_, _, _, _, _, _)
\* for k in 0..NCOLS { sum = sum + self.get(i, k) * rhs.get(k, j) }
mul_cell(l, r, row, col, k, sum) ==
    IF k >= ncols(l)
    THEN Ok(sum)
    ELSE IF get(l, row, k).ok /\ get(r, k, col).ok
         THEN mul_cell(l, r, row, col, k + 1,
                       ElemAdd(sum, ElemMul(get(l, row, k).val, get(r, k, col).val)))
         ELSE Panic

\* self.get(i, j) + rhs.get(i, j)
add_cell(l, r, row, col) ==
    IF get(l, row, col).ok /\ get(r, row, col).ok
    THEN Ok(ElemAdd(get(l, row, col).val, get(r, row, col).val))
    ELSE Panic

\* source.get(r, c)
eval_cell(m, row, col) == get(m, row, col)

offset_mutant(row, col, nc) == col * nc + row

\* i * NCOLS::to_usize() + j
offset(row, col, nc) == row * nc + col

\* slice[o] = v: indexing a slice past its end panics
put(s, o, v) ==
    IF o < Len(s.data)
    THEN [ok |-> TRUE, val |-> [s EXCEPT !.data[o + 1] = v]]
    ELSE Panic

\* for i in 0..nr { for j in 0..nc { .. } }: the cell after (row, col)
next_cell_mutant(row, col, nr, nc) == IF col + 1 < nc THEN <<row, col + 1>> ELSE <<nr, 0>>

next_cell(row, col, nr, nc) == IF col + 1 < nc THEN <<row, col + 1>> ELSE <<row + 1, 0>>

\* no iteration of the loops runs
EmptyLoops(nr, nc) == nr = 0 \/ nc = 0

\* the operator's prologue: let mut store = Default::default(), then the loops
Start(fn, m, out) ==
    /\ src' = m
    /\ dst' = "c"
    /\ store' = out
    /\ visited' = <<>>
    /\ i' = 0
    /\ j' = 0
    /\ res' = NoCall
    /\ IF EmptyLoops(out.nrows, out.ncols)
       THEN /\ env' = [env EXCEPT !["c"] = out]
            /\ decl' = [decl EXCEPT !["c"] = Declaration("result", <<>>, out)]
            /\ pc' = "idle"
            /\ fin' = fn
       ELSE /\ UNCHANGED <<env, decl>>
            /\ pc' = fn
            /\ fin' = "none"
    /\ UNCHANGED tree

\* one iteration of the inner loop of an eager operator; the iteration that
\* ends the loops returns `store`, which the caller binds to `c`
Step(fn, cell) ==
    /\ pc = fn
    /\ LET o   == offset(i, j, store.ncols)
           nxt == next_cell(i, j, store.nrows, store.ncols)
           w   == IF cell.ok THEN put(store, o, cell.val) ELSE Panic
       IN  IF ~w.ok
           THEN /\ pc' = "panic"
                /\ fin' = "panic"
                /\ UNCHANGED <<env, decl, store, visited, i, j>>
           ELSE /\ store' = w.val
                /\ visited' = Append(visited, <<i, j>>)
                /\ i' = nxt[1]
                /\ j' = nxt[2]
                /\ IF nxt[1] >= store.nrows
                   THEN /\ env' = [env EXCEPT ![dst] = w.val]
                        /\ decl' = [decl EXCEPT ![dst] = Declaration("result", <<>>, w.val)]
                        /\ pc' = "idle"
                        /\ fin' = fn
                   ELSE /\ UNCHANGED <<env, decl, fin>>
                        /\ pc' = pc
    /\ UNCHANGED <<tree, res, src, dst>>

\* let c = &l * &r;  (ops::Mul for &MatGenImm, R: ImmMatrix<NROWS = NCOLS>)
MulImm(l, r) ==
    /\ Idle /\ tree = NoTree /\ ~Declared("c")
    /\ Declared(l) /\ Declared(r)
    /\ ImmMatrix(Leaf(l)) /\ ImmMatrix(Leaf(r))
    /\ env[r].nrows = env[l].ncols
    /\ Start("mul", Product(Leaf(l), Leaf(r)), default("MatGenImm", env[l].nrows, env[r].ncols))

MulImmStep == Step("mul", mul_cell(src.l, src.r, i, j, 0, zero))

\* let c = &l + &r;  (ops::Add for &MatGenImm, R: ImmMatrix<NROWS = NROWS, NCOLS = NCOLS>)
AddImm(l, r) ==
    /\ Idle /\ tree = NoTree /\ ~Declared("c")
    /\ Declared(l) /\ Declared(r)
    /\ ImmMatrix(Leaf(l)) /\ ImmMatrix(Leaf(r))
    /\ env[r].nrows = env[l].nrows /\ env[r].ncols = env[l].ncols
    /\ Start("add", Sum(Leaf(l), Leaf(r)), default("MatGenImm", env[l].nrows, env[l].ncols))

AddImmStep == Step("add", add_cell(src.l, src.r, i, j))

\* tree.eval(&mut target): the target is a leaf of the tree's shape that the
\* tree does not borrow
Eval(target) ==
    /\ Idle /\ tree # NoTree /\ fin = "none"
    /\ Declared(target) /\ target \notin Leaves(tree)
    /\ env[target].nrows = nrows(tree) /\ env[target].ncols = ncols(tree)
    /\ src' = tree
    /\ dst' = target
    /\ visited' = <<>>
    /\ i' = 0
    /\ j' = 0
    /\ res' = NoCall
    /\ decl' = [decl EXCEPT ![target].how = "evaluated"]
    /\ IF EmptyLoops(nrows(tree), ncols(tree))
       THEN pc' = "idle" /\ fin' = "eval"
       ELSE pc' = "eval" /\ fin' = "none"
    /\ UNCHANGED <<env, tree, store>>

\* target[i, j] = source.get(i, j)
EvalStep ==
    /\ pc = "eval"
    /\ LET o   == offset(i, j, env[dst].ncols)
           nxt == next_cell(i, j, env[dst].nrows, env[dst].ncols)
           cell == eval_cell(src, i, j)
           w   == IF cell.ok THEN put(env[dst], o, cell.val) ELSE Panic
       IN  IF ~w.ok
           THEN /\ pc' = "panic"
                /\ fin' = "panic"
                /\ UNCHANGED <<env, visited, i, j>>
           ELSE /\ env' = [env EXCEPT ![dst] = w.val]
                /\ visited' = Append(visited, <<i, j>>)
                /\ i' = nxt[1]
                /\ j' = nxt[2]
                /\ IF nxt[1] >= env[dst].nrows
                   THEN pc' = "idle" /\ fin' = "eval"
                   ELSE pc' = pc /\ fin' = fin
    /\ UNCHANGED <<decl, tree, res, src, dst, store>>

Init ==
    /\ env = [n \in Names |-> None]
    /\ decl = [n \in Names |-> Undeclared]
    /\ tree = NoTree
    /\ res = NoCall
    /\ pc = "idle"
    /\ src = NoTree
    /\ dst = "c"
    /\ i = 0
    /\ j = 0
    /\ store = None
    /\ visited = <<>>
    /\ fin = "none"

Next ==
    \/ \E n \in LeafNames, rows \in Grids : DeclareMat(n, rows)
    \/ \E n \in LeafNames, rows \in Grids : DeclareMatGen(n, rows)
    \/ \E n \in LeafNames, rows \in Grids : DeclareMatGenImm(n, rows)
    \/ \E n \in LeafNames, nr \in Dims, nc \in Dims : DefaultMatGen(n, nr, nc)
    \/ \E n \in LeafNames, nr \in Dims, nc \in Dims : DefaultMatGenImm(n, nr, nc)
    \/ \E n \in Names : Ref(n)
    \/ Transpose
    \/ \E l \in Operands, r \in Operands : Mul(l, r)
    \/ \E l \in Operands, r \in Operands : Add(l, r)
    \/ \E l \in Operands, r \in Operands : Sub(l, r)
    \/ \E r \in 0..MaxDim, c \in 0..MaxDim : Get(r, c)
    \/ \E l \in LeafNames, r \in LeafNames : MulImm(l, r)
    \/ MulImmStep
    \/ \E l \in LeafNames, r \in LeafNames : AddImm(l, r)
    \/ AddImmStep
    \/ \E target \in Names : Eval(target)
    \/ EvalStep

Spec == Init /\ [][Next]_vars

(***************************************************************************)
(* The claims.                                                             *)
(***************************************************************************)
InBounds(m, r, c) == r < nrows(m) /\ c < ncols(m)

Rows(m) == 0..(nrows(m) - 1)

Cols(m) == 0..(ncols(m) - 1)

\* the indices a client may pass to get
Index == 0..MaxDim

\* C1: for every matrix-like value m, a leaf or a combinator, get(r, c) fails
\* the assertion (the program panics and no element is returned) exactly when
\* r >= m.nrows() or c >= m.ncols(); the index is neither clamped nor wrapped.
\* Otherwise it returns exactly m.unsafe_get(r, c).
C1_GetChecksBounds ==
    res.call = "get" =>
        IF res.r >= nrows(res.m) \/ res.c >= ncols(res.m)
        THEN res.ret = Panic /\ pc = "panic"
        ELSE res.ret = Ok(unsafe_get(res.m, res.r, res.c)) /\ pc = "idle"

\* get was called on a combinator with a row in range and the column out of range
C1_Witness ==
    /\ res.call = "get"
    /\ res.m.op \in {"t", "mul", "add", "sub"}
    /\ res.r < nrows(res.m)
    /\ res.c >= ncols(res.m)
    /\ res.ret = Panic

RECURSIVE DotProduct(_, _, _, _, _)
\* the sum over k' in [0, k) of l.get(r, k') * r.get(k', c), from zero
DotProduct(l, r, row, col, k) ==
    IF k = 0
    THEN zero
    ELSE ElemAdd(DotProduct(l, r, row, col, k - 1),
                 ElemMul(get(l, row, k - 1).val, get(r, k - 1, col).val))

\* C2: a Product of an m x k left operand and a k x n right operand has shape
\* m x n, and for every i < m and j < n its get(i, j) is the sum over k' < k of
\* left.get(i, k') * right.get(k', j), accumulated from the element type's
\* zero (so a shared dimension of 0 yields zero).
C2_ProductIsDotProduct ==
    (tree # NoTree /\ tree.op = "mul") =>
        /\ ncols(tree.l) = nrows(tree.r)
        /\ nrows(tree) = nrows(tree.l)
        /\ ncols(tree) = ncols(tree.r)
        /\ \A row \in Rows(tree.l), col \in Cols(tree.r) :
              /\ get(tree, row, col) = Ok(DotProduct(tree.l, tree.r, row, col, ncols(tree.l)))
              /\ ncols(tree.l) = 0 => get(tree, row, col) = Ok(zero)

\* get returned a non-zero element of a product whose operands share a
\* dimension of at least 2
C2_Witness ==
    /\ res.call = "get"
    /\ res.m.op = "mul"
    /\ ncols(res.m.l) >= 2
    /\ nrows(res.m) # ncols(res.m)
    /\ res.ret.ok
    /\ res.ret.val # zero

Literal(n) == decl[n].how = "literal"

\* C3: for every storage matrix (Mat, MatGen, MatGenImm) built from a
\* rectangular literal grid and every in-bounds (r, c), get(r, c) returns the
\* buffer element at flat offset r * ncols + c, which is the value written at
\* row r, column c of the literal.
C3_LiteralIsRowMajor ==
    \A n \in Names :
        Literal(n) =>
            /\ Rectangular(decl[n].rows)
            /\ env[n].nrows = Len(decl[n].rows)
            /\ env[n].ncols = Len(decl[n].rows[1])
            /\ \A row \in Rows(Leaf(n)), col \in Cols(Leaf(n)) :
                  /\ get(Leaf(n), row, col) = Ok(env[n].data[row * env[n].ncols + col + 1])
                  /\ get(Leaf(n), row, col) = Ok(decl[n].rows[row + 1][col + 1])

\* get read the second row of a non-square literal
C3_Witness ==
    /\ res.call = "get"
    /\ res.m.op = "leaf"
    /\ Literal(res.m.name)
    /\ ncols(res.m) # nrows(res.m)
    /\ res.r = 1
    /\ res.ret.ok

\* C4: for a freshly default-constructed storage matrix of any shape and every
\* (r, c) with r < nrows and c < ncols, get(r, c) returns the element type's
\* zero value.
C4_DefaultIsZero ==
    \A n \in Names :
        decl[n].how = "default" =>
            \A row \in Rows(Leaf(n)), col \in Cols(Leaf(n)) :
                get(Leaf(n), row, col) = Ok(zero)

\* get read an element of a default-constructed matrix
C4_Witness ==
    /\ res.call = "get"
    /\ res.m.op = "leaf"
    /\ decl[res.m.name].how = "default"
    /\ res.ret.ok
    /\ res.r > 0 /\ res.c > 0

\* C5: the transpose node tr = a.t() reports tr.nrows() = a.ncols() and
\* tr.ncols() = a.nrows(), and tr.get(r, c) = a.get(c, r) for every (r, c) in
\* bounds of tr; building it holds the operand itself and leaves the data of
\* every matrix as it was.
C5_Transpose ==
    [][(tree' # tree /\ tree'.op = "t") =>
          /\ tree'.m = tree
          /\ env' = env
          /\ nrows(tree') = ncols(tree)
          /\ ncols(tree') = nrows(tree)
          /\ \A row \in Rows(tree'), col \in Cols(tree') :
                /\ get(tree', row, col).ok
                /\ get(tree', row, col) = get(tree, col, row)]_vars

\* get read an off-diagonal element of the transpose of a non-square matrix
C5_Witness ==
    /\ res.call = "get"
    /\ res.m.op = "t"
    /\ nrows(res.m) # ncols(res.m)
    /\ res.r # res.c
    /\ res.ret.ok

\* C6: transpose is involutive: for every matrix-like a (non-square shapes
\* included) a.t().t() has the shape of a, a.t().t().get(r, c) = a.get(r, c)
\* for every (r, c) in bounds of a, and an index out of bounds for a is
\* rejected by a.t().t().get as well.
C6_TransposeInvolutive ==
    (tree # NoTree /\ Matrix(tree)) =>
        /\ nrows(t(t(tree))) = nrows(tree)
        /\ ncols(t(t(tree))) = ncols(tree)
        /\ \A row \in Index, col \in Index :
              /\ get(t(t(tree)), row, col) = get(tree, row, col)
              /\ get(t(t(tree)), row, col).ok <=> InBounds(tree, row, col)

\* a.t().t() was built over a non-square a and get read an off-diagonal element
C6_Witness ==
    /\ res.call = "get"
    /\ res.m.op = "t"
    /\ res.m.m.op = "t"
    /\ nrows(res.m) # ncols(res.m)
    /\ res.r # res.c
    /\ res.ret.ok
    /\ res.ret.val # zero

\* C7: Sum is elementwise and commutative: for same-shaped a and b and every
\* in-bounds (r, c), (a + b).get(r, c) = a.get(r, c) + b.get(r, c) and
\* (a + b).get(r, c) = (b + a).get(r, c); the sum has the shape of its
\* operands.  The eager `&a + &b` of MatGenImm yields the same elements.
C7_SumElementwiseCommutative ==
    /\ (tree # NoTree /\ tree.op = "add") =>
          /\ size(tree) = size(tree.l)
          /\ size(tree) = size(tree.r)
          /\ \A row \in Rows(tree), col \in Cols(tree) :
                /\ get(tree, row, col)
                     = Ok(ElemAdd(get(tree.l, row, col).val, get(tree.r, row, col).val))
                /\ get(tree, row, col) = get(Sum(tree.r, tree.l), row, col)
    /\ fin = "add" =>
          /\ size(Leaf(dst)) = size(src.l)
          /\ size(Leaf(dst)) = size(src.r)
          /\ \A row \in Rows(Leaf(dst)), col \in Cols(Leaf(dst)) :
                /\ get(Leaf(dst), row, col)
                     = Ok(ElemAdd(get(src.l, row, col).val, get(src.r, row, col).val))
                /\ get(Leaf(dst), row, col) = add_cell(src.r, src.l, row, col)

\* get read an element of a lazy sum whose operands differ at that cell
C7_Witness ==
    /\ res.call = "get"
    /\ res.m.op = "add"
    /\ res.ret.ok
    /\ get(res.m.l, res.r, res.c) # get(res.m.r, res.r, res.c)

\* C8: Difference is elementwise and antisymmetric: for same-shaped a and b
\* and every in-bounds (r, c), (a - b).get(r, c) = a.get(r, c) - b.get(r, c)
\* and (a - b).get(r, c) = -(b - a).get(r, c).
C8_DifferenceElementwiseAntisymmetric ==
    (tree # NoTree /\ tree.op = "sub") =>
        /\ size(tree) = size(tree.l)
        /\ size(tree) = size(tree.r)
        /\ \A row \in Rows(tree), col \in Cols(tree) :
              /\ get(tree, row, col)
                   = Ok(ElemSub(get(tree.l, row, col).val, get(tree.r, row, col).val))
              /\ get(tree, row, col)
                   = Ok(ElemNeg(get(Difference(tree.r, tree.l), row, col).val))

\* get read a non-zero element of a difference
C8_Witness ==
    /\ res.call = "get"
    /\ res.m.op = "sub"
    /\ res.ret.ok
    /\ res.ret.val # zero

\* the cells of an nr x nc matrix in row-major order
RowMajor(nr, nc) == [k \in 1..(nr * nc) |-> <<(k - 1) \div nc, (k - 1) % nc>>]

Materializing == pc \in {"mul", "add", "eval"}

\* what is being filled: the operator's local, or the target of the evaluation
Target == IF pc \in {"mul", "add"} THEN store ELSE env[dst]

\* C9: materializing an operator expression into a storage matrix (the eager
\* `&a * &b` and `&a + &b` of MatGenImm, and evaluate-into) visits every cell
\* of the result shape exactly once, rows in the outer loop and columns in the
\* inner one, reads the operands only through get with in-bounds indices (no
\* assertion fails), and on completion the target holds at offset
\* i * ncols + j the value the lazy expression's get(i, j) returns.
C9_Materialization ==
    /\ fin # "panic"
    /\ Materializing =>
          /\ Target.nrows = nrows(src) /\ Target.ncols = ncols(src)
          /\ Len(visited) < nrows(src) * ncols(src)
          /\ visited = SubSeq(RowMajor(nrows(src), ncols(src)), 1, Len(visited))
          /\ <<i, j>> = RowMajor(nrows(src), ncols(src))[Len(visited) + 1]
          /\ \A k \in 1..Len(visited) :
                Target.data[k] = get(src, visited[k][1], visited[k][2]).val
    /\ fin \in {"mul", "add", "eval"} =>
          /\ env[dst].nrows = nrows(src) /\ env[dst].ncols = ncols(src)
          /\ visited = RowMajor(nrows(src), ncols(src))
          /\ \A row \in Rows(src), col \in Cols(src) :
                /\ get(src, row, col).ok
                /\ env[dst].data[row * ncols(src) + col + 1] = get(src, row, col).val

\* an eager product with more columns than rows ran to completion
C9_Witness ==
    /\ fin = "mul"
    /\ nrows(src) >= 1
    /\ ncols(src) > nrows(src)
    /\ ncols(src.l) >= 2
    /\ \E k \in 1..Len(env[dst].data) : env[dst].data[k] # zero

BufferFits(s, shape) == Len(s.data) = shape[1] * shape[2]

\* C10: every storage matrix produced by a literal macro or by default
\* construction has a buffer of exactly nrows * ncols elements of its declared
\* shape, and no later operation (operators, get, materialization) changes
\* that length: in every state the buffer of every matrix, the local of a
\* running eager operator included, has the length its declaration gave it.
C10_BufferLength ==
    /\ \A n \in Names :
          Declared(n) =>
              /\ <<env[n].nrows, env[n].ncols>> = decl[n].shape
              /\ BufferFits(env[n], decl[n].shape)
    /\ pc \in {"mul", "add"} => BufferFits(store, <<nrows(src), ncols(src)>>)

\* a literal, a default-constructed matrix and an eager result exist together
C10_Witness ==
    /\ decl["a"].how = "literal"
    /\ decl["b"].how = "default"
    /\ decl["c"].how = "result"
    /\ res.call = "get"
    /\ Len(env["a"].data) > Len(env["c"].data)
    /\ Len(env["c"].data) >= 2

\* C11: mat! and mat_gen! reject at build time every grid whose rows do not
\* all have the same number of elements, whether a row is longer or shorter
\* than the first: the build fails reporting an offending element, no matrix
\* value is produced and nothing is left to fail at run time.
C11_RaggedRejectedAtBuildTime ==
    [][\A n \in LeafNames, rows \in Grids :
          ~Rectangular(rows) =>
              /\ DeclareMat(n, rows) =>
                    /\ pc' = "compile_error" /\ env' = env
                    /\ mat(rows).spans # {}
              /\ DeclareMatGen(n, rows) =>
                    /\ pc' = "compile_error" /\ env' = env
                    /\ mat_gen(rows).spans # {}]_vars

\* what the macros do with a grid that is not rectangular: a row longer than
\* the first is reported by the macro, element by element, and fails the
\* build; with only shorter rows mat! fails the build on the array's type
\* and mat_gen! builds and panics when the statement runs
C11_AsBuilt ==
    [][\A n \in LeafNames, rows \in Grids :
          LET long == \E x \in 1..Len(rows) : Len(rows[x]) > Len(rows[1])
          IN  ~Rectangular(rows) =>
              /\ DeclareMat(n, rows) =>
                    /\ pc' = "compile_error" /\ env' = env
                    /\ (mat(rows).spans # {}) = long
              /\ DeclareMatGen(n, rows) =>
                    /\ env' = env
                    /\ pc' = IF long THEN "compile_error" ELSE "panic"
                    /\ (mat_gen(rows).spans # {}) = long]_vars

\* a mat_gen! literal whose second row is shorter than its first has failed
\* when it ran
C11_Witness ==
    /\ pc = "panic" /\ res = NoCall /\ fin = "none"
    /\ \A n \in Names : ~Declared(n)

\* the elements a leaf was created with: its literal's, flattened, or zeros
Original(n) ==
    CASE decl[n].how = "literal" -> flat_map(decl[n].rows)
      [] decl[n].how = "default" -> [k \in 1..(decl[n].shape[1] * decl[n].shape[2]) |-> ElemDefault]
      [] OTHER -> env[n].data

\* C12: building combinator nodes (`*`, `+`, `.t()`) and calling get, any
\* number of times and in any order, changes no leaf's buffer, and get does
\* not change the tree: every leaf that was not the destination of a
\* materialization holds the elements it was created with, a get repeated on
\* the same tree returns the same value, and the only step that changes an
\* existing storage is a write of a materialization, which changes only its
\* destination, a storage the source expression does not read.
C12_Frame ==
    [][/\ \A n \in Names :
             (Declared(n) /\ env'[n] # env[n]) =>
                 /\ pc = "eval" /\ n = dst /\ n \notin Leaves(src)
                 /\ \A o \in Names \ {n} : env'[o] = env[o]
       /\ tree' # tree => env' = env
       /\ res'.call = "get" =>
             /\ env' = env /\ tree' = tree
             /\ res'.m = tree
             /\ (res.call = "get" /\ res.m = res'.m /\ res.r = res'.r /\ res.c = res'.c)
                    => res'.ret = res.ret
       /\ \A n \in Names :
             (Declared(n) /\ decl'[n].how \in {"literal", "default"}) =>
                 (env[n].data = Original(n) /\ env'[n].data = env[n].data)]_vars

\* after an expression was evaluated into another storage, a get on it
\* returned an element computed from leaves that still hold their literals
C12_Witness ==
    /\ fin = "eval" /\ pc = "idle"
    /\ res.call = "get" /\ res.m = src /\ res.m.op = "mul"
    /\ res.ret.ok /\ res.ret.val # zero
    /\ \A n \in Leaves(src) : decl[n].how = "literal" /\ env[n].data = Original(n)
    /\ \E k \in 1..Len(env[dst].data) : env[dst].data[k] # zero

RECURSIVE Nodes(_)
\* an expression and all its sub-expressions
Nodes(m) ==
    CASE m.op = "none" -> {}
      [] m.op = "leaf" -> {m}
      [] m.op = "t" -> {m} \cup Nodes(m.m)
      [] OTHER -> {m} \cup Nodes(m.l) \cup Nodes(m.r)

\* C13: every combinator node that the operators can construct satisfies its
\* shape precondition: every Product (built by `*` on &Mat, &MatGen or a
\* Transpose) has left.ncols() = right.nrows() and the shape left.nrows() x
\* right.ncols(); every Sum (built by `+` on a Product) has operands of
\* identical nrows and ncols and that shape.  No node with mismatched operand
\* shapes is reachable.
C13_ShapePreconditions ==
    \A n \in Nodes(tree) \cup Nodes(src) :
        /\ n.op = "mul" =>
              /\ ncols(n.l) = nrows(n.r)
              /\ size(n) = <<nrows(n.l), ncols(n.r)>>
        /\ (n.op = "mul" /\ Matrix(n)) => n.l.op \in {"leaf", "t"}
        /\ n.op = "add" =>
              /\ nrows(n.l) = nrows(n.r) /\ ncols(n.l) = ncols(n.r)
              /\ size(n) = size(n.l)
        /\ (n.op = "add" /\ Matrix(n)) => n.l.op = "mul"

\* a Product was built on the Transpose of a matrix that is not square, with
\* a right operand that is not square either
C13_Witness ==
    /\ tree.op = "mul"
    /\ tree.l.op = "t"
    /\ nrows(tree.l) # ncols(tree.l)
    /\ nrows(tree.r) # ncols(tree.r)
    /\ nrows(tree) >= 1 /\ ncols(tree) >= 1 /\ ncols(tree.l) >= 1

\* C14: in-bounds propagation.  For every expression tree built through the
\* operators and every get(r, c) that passes the root's bounds check, every
\* unsafe_get call made on a sub-node receives indices within that node's own
\* shape, every read of a leaf's buffer uses the offset r' * ncols + c', which
\* is below the leaf's nrows * ncols and the buffer's length, and so the
\* element returned is a defined one.
C14_InBoundsPropagation ==
    (res.call = "get" /\ res.ret.ok) =>
        /\ res.ret.val # Undef
        /\ \A call \in unsafe_get_calls(res.m, res.r, res.c) :
              LET n  == call[1]
                  r_ == call[2]
                  c_ == call[3]
              IN  /\ r_ < nrows(n) /\ c_ < ncols(n)
                  /\ n.op = "leaf" =>
                        /\ r_ * env[n.name].ncols + c_ < nrows(n) * ncols(n)
                        /\ r_ * env[n.name].ncols + c_ < Len(env[n.name].data)
                        /\ storage_unsafe_get(env[n.name], r_, c_) # Undef

\* a get passed the bounds check of a Product of the Transpose of a matrix
\* that is not square, and reached both leaves at a row and a column other
\* than 0
C14_Witness ==
    /\ res.call = "get" /\ res.ret.ok
    /\ res.m.op = "mul" /\ res.m.l.op = "t"
    /\ nrows(res.m.l) # ncols(res.m.l)
    /\ \E call \in unsafe_get_calls(res.m, res.r, res.c) :
          call[1].op = "leaf" /\ call[2] >= 1 /\ call[3] >= 1
    /\ res.ret.val # zero

====
